---- MODULE Spec2Model ----
(***************************************************************************)
(* Model of mapback-rs (src/src/main.rs): the tool that builds the coarser *)
(* zoom levels of a tiled map from the most detailed level found on disk.  *)
(*                                                                         *)
(* The disk is the folder given on the command line:                       *)
(*   top   : what sits at folder/<zoom> for each zoom ("none", a directory *)
(*           or a regular file);                                           *)
(*   files : the files folder/<z>/<x>/<y>.<ext>, each with its content.    *)
(* Directory and file names are sequences of characters, so that parsing   *)
(* a name to a coordinate and formatting a coordinate to a name are the    *)
(* two different conversions the code performs.                            *)
(*                                                                         *)
(* An image is a record [ok, px]: ok says whether the bytes decode, px     *)
(* gives what each of its four quarter regions shows.  A region is a       *)
(* sequence of tokens naming its content; the empty sequence is the region *)
(* whose every pixel is RGBA (0,0,0,0).  The image library (decode,        *)
(* resize, copy_from, save) is outside the repository: resize is modelled  *)
(* as a constructor over the source image that maps a fully transparent    *)
(* image to a fully transparent region and any other image to a region     *)
(* that names it.                                                          *)
(***************************************************************************)
EXTENDS Integers, Sequences, FiniteSets, TLC

VARIABLES
    min_zoom,      \* args.min_zoom
    max_zoom,      \* args.max_zoom
    top,           \* folder/<zoom>: "none", "dir" or "file"
    files,         \* folder/<z>/<x>/<y>.<ext> -> image
    pc,            \* position of main: "start", "loop", "tiles", "done", "aborted"
    zoom_level,    \* main's loop variable
    image_paths,   \* the paths of the current pass not yet processed
    \* ---- history (never read by the program) ----
    top0,          \* top when the run began
    files0,        \* files when the run began
    start_level,   \* what find_last_zoom_level returned
    passes,        \* destination levels of the passes completed, in order
    pass_files,    \* files when the current (or last) pass began
    levels_read,   \* levels enumerated so far
    written,       \* destination paths written in the current (or last) pass
    first_out,     \* written path -> the image its first write of the pass stored
    last_tile,     \* the path handed to the last process_image_path call
    consulted,     \* paths whose existence that call checked
    decoded,       \* paths that call opened and decoded
    last_write,    \* path that call saved
    fatal          \* why the run aborted: "", "mkdir", "parse", "decode", "save"

vars == <<min_zoom, max_zoom, top, files, pc, zoom_level, image_paths,
          top0, files0, start_level, passes, pass_files, levels_read,
          written, first_out, last_tile, consulted, decoded, last_write, fatal>>

----------------------------------------------------------------------------
(* Bounds of the model *)

\* zoom levels are 0..MaxZoom (u8 in the program)
MaxZoom == 2

(* Program constants *)

\* edge of one quadrant of the output image
TileSize == 256
\* edge of the output image
OutputSize == 512

Levels == 0 .. MaxZoom

----------------------------------------------------------------------------
(* Names and numbers *)

DigitChars == <<"0", "1", "2", "3", "4", "5", "6", "7", "8", "9">>

\* char::to_digit(10) as a table
DigitValue == [c \in {DigitChars[d] : d \in 1 .. 10} |->
                 (CHOOSE d \in 1 .. 10 : DigitChars[d] = c) - 1]

\* the value of a decimal digit character, -1 for any other character
ToDigit(c) == IF c \in DOMAIN DigitValue THEN DigitValue[c] ELSE -1

ParseError == -1

RECURSIVE ParseDigits(_, _)
ParseDigits(digits, acc) ==
    IF digits = <<>> THEN acc
    ELSE IF ToDigit(Head(digits)) < 0 THEN ParseError
    ELSE ParseDigits(Tail(digits), acc * 10 + ToDigit(Head(digits)))

\* str::parse::<u32>: an optional leading "+", then decimal digits; leading
\* zeros are accepted.  (Names of the model are far too short to overflow.)
ParseU32(src) ==
    IF src = <<>> THEN ParseError
    ELSE IF Len(src) = 1 /\ Head(src) \in {"+", "-"} THEN ParseError
    ELSE IF Head(src) = "+" THEN ParseDigits(Tail(src), 0)
    ELSE ParseDigits(src, 0)

\* Display of an unsigned integer: decimal, no sign, no leading zero
RECURSIVE FormatU32(_)
FormatU32(n) ==
    IF n < 10 THEN <<DigitChars[n + 1]>>
    ELSE FormatU32(n \div 10) \o <<DigitChars[(n % 10) + 1]>>

----------------------------------------------------------------------------
(* Paths and images *)

\* folder/<z>/<x>/<y>.<ext>
TilePath(z, x, y, ext) == [z |-> z, x |-> x, y |-> y, ext |-> ext]

\* the pixel offset of quadrant (i, j) of the output image: (i * 256, j * 256)
Offset(i, j) == <<i * TileSize, j * TileSize>>

\* the offsets at which a 256 x 256 region fits the 512 x 512 output image
Offsets ==
    {<<x, y>> : x \in {k \in 0 .. OutputSize - TileSize : k % TileSize = 0},
                y \in {k \in 0 .. OutputSize - TileSize : k % TileSize = 0}}

\* the region whose pixels are all Rgba([0, 0, 0, 0])
Transparent == <<>>

\* imageops::resize(&image, 256, 256, Lanczos3): one region showing the whole
\* source image
Resize(image) ==
    IF \A o \in Offsets : image.px[o] = Transparent
    THEN Transparent
    ELSE <<"rs", "(">> \o image.px[Offset(0, 0)] \o <<",">> \o image.px[Offset(1, 0)]
         \o <<",">> \o image.px[Offset(0, 1)] \o <<",">> \o image.px[Offset(1, 1)]
         \o <<")">>

\* ImageBuffer::new(512, 512): every pixel zero
NewImageBuffer == [ok |-> TRUE, px |-> [o \in Offsets |-> Transparent]]

\* fill_transparent(image, x, y, 256, 256)
fill_transparent(image, x, y) ==
    [image EXCEPT !.px = [o \in Offsets |-> IF o = <<x, y>> THEN Transparent ELSE @[o]]]

\* output_image.copy_from(&resized_image, x, y)
CopyFrom(image, region, x, y) ==
    [image EXCEPT !.px = [o \in Offsets |-> IF o = <<x, y>> THEN region ELSE @[o]]]

IsFullyTransparent(image) == \A o \in Offsets : image.px[o] = Transparent

----------------------------------------------------------------------------
(* The functions of main.rs *)

\* Path::new(folder/<zoom>).exists(): true of a directory and of a file alike
LevelExists(zoom) == top[zoom] # "none"

\* Path::new(path).exists() for a tile path
TileExists(path) == path \in DOMAIN files

\* (min_zoom..=max_zoom).rev().find(exists): the range is walked from its
\* upper end; -1 stands for None
RECURSIVE RevFind(_, _)
RevFind(zoom, minz) ==
    IF zoom < minz THEN -1
    ELSE IF LevelExists(zoom) THEN zoom
    ELSE RevFind(zoom - 1, minz)

\* (min_zoom..=max_zoom).rev().find(exists).unwrap_or(min_zoom)
find_last_zoom_level(maxz, minz) ==
    IF RevFind(maxz, minz) = -1 THEN minz ELSE RevFind(maxz, minz)

\* read_dir(folder/<zoom>), read_dir of each entry, the files with extension
\* "png"; a level that is no directory cannot be read and yields nothing
collect_image_paths(zoom) ==
    IF top[zoom] = "dir"
    THEN {path \in DOMAIN files : path.z = zoom /\ path.ext = "png"}
    ELSE {}

\* parse_image_path on the path without ".png": parts[1] and parts[2] parsed
parse_image_path(image_path) == <<ParseU32(image_path.x), ParseU32(image_path.y)>>

ParseFails(image_path) ==
    LET xy == parse_image_path(image_path)
    IN  xy[1] = ParseError \/ xy[2] = ParseError

\* (back_x, back_y) = (x / 2, y / 2)
Back(image_path) ==
    LET xy == parse_image_path(image_path)
    IN  <<xy[1] \div 2, xy[2] \div 2>>

\* format!("{}/{}/{}/{}.png", folder, output_zoom_level, back_x, back_y)
BackPath(image_path, output_zoom_level) ==
    LET back == Back(image_path)
    IN  TilePath(output_zoom_level, FormatU32(back[1]), FormatU32(back[2]), "png")

\* mutant of SourcePath: the quad is counted from the enumerated tile (x + i,
\* y + j) instead of from the quad's origin
SourcePathFromTile(image_path, zoom, i, j) ==
    LET xy == parse_image_path(image_path)
    IN  TilePath(zoom, FormatU32(xy[1] + i), FormatU32(xy[2] + j), "png")

\* format!("{}/{}/{}/{}.png", folder, zoom_level, back_x * 2 + i, back_y * 2 + j)
SourcePath(image_path, zoom, i, j) ==
    LET back == Back(image_path)
    IN  TilePath(zoom, FormatU32(back[1] * 2 + i), FormatU32(back[2] * 2 + j), "png")

SourcePaths(image_path, zoom) ==
    {SourcePath(image_path, zoom, i, j) : i \in 0 .. 1, j \in 0 .. 1}

\* mutant of Quadrant: the pixel offsets are exchanged, (j * 256, i * 256)
QuadrantTransposed(output_image, image_path, zoom, i, j) ==
    LET path == SourcePath(image_path, zoom, i, j)
    IN  IF TileExists(path)
        THEN CopyFrom(output_image, Resize(files[path]), j * TileSize, i * TileSize)
        ELSE fill_transparent(output_image, j * TileSize, i * TileSize)

\* one turn of the loops over i and j
Quadrant(output_image, image_path, zoom, i, j) ==
    LET path == SourcePath(image_path, zoom, i, j)
    IN  IF TileExists(path)
        THEN CopyFrom(output_image, Resize(files[path]), i * TileSize, j * TileSize)
        ELSE fill_transparent(output_image, i * TileSize, j * TileSize)

\* the output image after the loops: i = 0, 1 outside, j = 0, 1 inside
Compose(image_path, zoom) ==
    Quadrant(Quadrant(Quadrant(Quadrant(NewImageBuffer,
        image_path, zoom, 0, 0), image_path, zoom, 0, 1),
        image_path, zoom, 1, 0), image_path, zoom, 1, 1)

\* the order in which the loops visit the quadrants: i outside, j inside
LoopOrder == <<(<<0, 0>>), (<<0, 1>>), (<<1, 0>>), (<<1, 1>>)>>

\* mutant of PanicsAt: the source is opened without the exists() test, so an
\* absent source panics too
PanicsAtUnchecked(image_path, zoom, k) ==
    LET path == SourcePath(image_path, zoom, LoopOrder[k][1], LoopOrder[k][2])
    IN  IF TileExists(path) THEN ~files[path].ok ELSE TRUE

\* ImageReader::open(path).unwrap().decode().unwrap() panics at turn k
PanicsAt(image_path, zoom, k) ==
    LET path == SourcePath(image_path, zoom, LoopOrder[k][1], LoopOrder[k][2])
    IN  TileExists(path) /\ ~files[path].ok

\* some turn of the loops panics
DecodePanics(image_path, zoom) ==
    \E k \in 1 .. Len(LoopOrder) : PanicsAt(image_path, zoom, k)

\* the sources the loops have looked at when they panic
SeenBeforePanic(image_path, zoom) ==
    {SourcePath(image_path, zoom, LoopOrder[k][1], LoopOrder[k][2]) :
        k \in {n \in 1 .. Len(LoopOrder) :
                  \A m \in 1 .. n - 1 : ~PanicsAt(image_path, zoom, m)}}

\* mutant of OutputZoomLevel: the pass writes the level it reads
OutputZoomLevelSame(zoom) == zoom

\* the level a pass writes
OutputZoomLevel(zoom) == zoom - 1

\* mutant of SavePath: the image is saved at the level of the sources
SavePathAtSourceLevel(image_path, output_zoom_level) ==
    BackPath(image_path, output_zoom_level + 1)

\* the path output_image.save writes
SavePath(image_path, output_zoom_level) == BackPath(image_path, output_zoom_level)

----------------------------------------------------------------------------
(* The disks a run may start from *)

\* a picture with no fully transparent region; its regions are named after the
\* path, so no two pictures and no two regions look alike
Picture(path) ==
    [ok |-> TRUE,
     px |-> [o \in Offsets |->
               <<"pic">> \o FormatU32(path.z) \o <<"/">> \o path.x \o <<"/">> \o path.y
               \o <<"@">> \o FormatU32(o[1]) \o <<",">> \o FormatU32(o[2])]]

\* a picture whose every pixel is transparent
ClearPicture == [ok |-> TRUE, px |-> [o \in Offsets |-> Transparent]]

\* bytes that do not decode
Undecodable == [ok |-> FALSE, px |-> [o \in Offsets |-> Transparent]]

Content(path, kind) ==
    CASE kind = "pic" -> Picture(path)
      [] kind = "clear" -> ClearPicture
      [] kind = "bad" -> Undecodable

\* An entry of a level is <<directory name, file stem, extension, kind of content>>.
\* The four tiles of quad (0, 0), named as the program names them:
QuadEntries ==
    { <<(<<"0">>), (<<"0">>), "png", "pic">>, <<(<<"0">>), (<<"1">>), "png", "pic">>,
      <<(<<"1">>), (<<"0">>), "png", "pic">>, <<(<<"1">>), (<<"1">>), "png", "pic">> }

\* what else a level may hold: a tile whose directory name has a leading zero, a
\* file whose stem is no number, a file that is no png, a tile of the next quad
\* (sound or undecodable), a tile that is fully transparent
ExtraEntries ==
    { <<(<<"0", "1">>), (<<"0">>), "png", "pic">>,
      <<(<<"0">>), (<<"a">>), "png", "pic">>,
      <<(<<"1">>), (<<"1">>), "jpg", "pic">>,
      <<(<<"2">>), (<<"0">>), "png", "pic">>,
      <<(<<"2">>), (<<"0">>), "png", "bad">>,
      <<(<<"1">>), (<<"1">>), "png", "clear">> }

SameFile(e, f) == e[1] = f[1] /\ e[2] = f[2] /\ e[3] = f[3]

\* the data sets of the model: any tiles of quad (0, 0), and at most one extra
PlainDatasets == SUBSET QuadEntries

WithExtra(extra) ==
    { quad \cup {extra} : quad \in {q \in SUBSET QuadEntries : \A e \in q : ~SameFile(e, extra)} }

OddDatasets == UNION { WithExtra(extra) : extra \in ExtraEntries }

\* the files of the entries of dataset, put at level z
FilesOf(z, dataset) ==
    [path \in {TilePath(z, e[1], e[2], e[3]) : e \in dataset} |->
        Content(path, (CHOOSE e \in dataset : TilePath(z, e[1], e[2], e[3]) = path)[4])]

\* The arguments are any two levels.  At most one level holds files.  Either
\* every folder/<zoom> is absent or a directory and the files are any data set;
\* or one folder/<zoom> is a regular file and the files are plain tiles of
\* another level; or there is no directory at all.
Init ==
    /\ min_zoom \in Levels
    /\ max_zoom \in Levels
    /\ \E z \in Levels :
          \/ /\ top \in [Levels -> {"none", "dir"}]
             /\ top[z] = "dir"
             /\ \E dataset \in PlainDatasets \cup OddDatasets : files = FilesOf(z, dataset)
          \/ /\ top \in [Levels -> {"none", "dir", "file"}]
             /\ top[z] = "file"
             /\ Cardinality({l \in Levels : top[l] = "file"}) = 1
             /\ \E data \in Levels, dataset \in PlainDatasets :
                   /\ top[data] = "dir"
                   /\ files = FilesOf(data, dataset)
          \/ /\ top \in [Levels -> {"none", "file"}]
             /\ Cardinality({l \in Levels : top[l] = "file"}) <= 1
             /\ files = FilesOf(0, {})
    /\ pc = "start"
    /\ zoom_level = 0
    /\ image_paths = {}
    /\ top0 = top
    /\ files0 = files
    /\ start_level = 0
    /\ passes = <<>>
    /\ pass_files = files
    /\ levels_read = {}
    /\ written = {}
    /\ first_out = FilesOf(0, {})
    /\ last_tile = {}
    /\ consulted = {}
    /\ decoded = {}
    /\ last_write = {}
    /\ fatal = ""

----------------------------------------------------------------------------
(* The steps of main *)

\* line 39: let mut zoom_level = find_last_zoom_level(...)
Locate ==
    /\ pc = "start"
    /\ zoom_level' = find_last_zoom_level(max_zoom, min_zoom)
    /\ start_level' = find_last_zoom_level(max_zoom, min_zoom)
    /\ pc' = "loop"
    /\ UNCHANGED <<min_zoom, max_zoom, top, files, image_paths, top0, files0, passes,
                   pass_files, levels_read, written, first_out, last_tile, consulted,
                   decoded, last_write, fatal>>

\* lines 42-52: the loop test, collect_image_paths, create_dir_all(output_dir)
BeginPass ==
    /\ pc = "loop"
    /\ zoom_level > min_zoom
    /\ levels_read' = levels_read \cup {zoom_level}
    /\ pass_files' = files
    /\ written' = {}
    /\ first_out' = FilesOf(0, {})
    /\ last_tile' = {}
    /\ consulted' = {}
    /\ decoded' = {}
    /\ last_write' = {}
    /\ IF top[OutputZoomLevel(zoom_level)] = "file"
       THEN \* create_dir_all fails on a path that is a file: unwrap panics
            /\ pc' = "aborted"
            /\ fatal' = "mkdir"
            /\ image_paths' = {}
            /\ UNCHANGED top
       ELSE /\ pc' = "tiles"
            /\ image_paths' = collect_image_paths(zoom_level)
            /\ top' = [top EXCEPT ![OutputZoomLevel(zoom_level)] = "dir"]
            /\ UNCHANGED fatal
    /\ UNCHANGED <<min_zoom, max_zoom, files, zoom_level, top0, files0, start_level,
                   passes>>

\* the image the call for image_path saves
OutputImage(image_path) == Compose(image_path, zoom_level)

\* mutant of Save: a quad with an absent source is skipped
SaveFullQuadOnly(image_path) ==
    IF \A path \in SourcePaths(image_path, zoom_level) : TileExists(path)
    THEN (SavePath(image_path, OutputZoomLevel(zoom_level)) :> OutputImage(image_path)) @@ files
    ELSE files

\* the files after the call for image_path has saved its image: the file at the
\* save path is created or replaced, every other file is kept
Save(image_path) ==
    (SavePath(image_path, OutputZoomLevel(zoom_level)) :> OutputImage(image_path)) @@ files

\* the path the call for image_path saves its image at
SavedAt(image_path) == SavePath(image_path, OutputZoomLevel(zoom_level))

\* lines 53-55 and 116-146: one call of process_image_path.  save_fails is the
\* environment: create_dir_all or save reports an I/O error.
ProcessTile(image_path, save_fails) ==
    /\ pc = "tiles"
    /\ image_path \in image_paths
    /\ image_paths' = image_paths \ {image_path}
    /\ last_tile' = {image_path}
    /\ IF image_path.ext # "png"
       THEN \* strip_suffix(".png") is None: only the progress bar moves
            /\ UNCHANGED <<files, pc, fatal, written, first_out>>
            /\ consulted' = {}
            /\ decoded' = {}
            /\ last_write' = {}
       ELSE IF ParseFails(image_path)
       THEN /\ pc' = "aborted"
            /\ fatal' = "parse"
            /\ consulted' = {}
            /\ decoded' = {}
            /\ last_write' = {}
            /\ UNCHANGED <<files, written, first_out>>
       ELSE IF DecodePanics(image_path, zoom_level)
       THEN /\ pc' = "aborted"
            /\ fatal' = "decode"
            /\ consulted' = SeenBeforePanic(image_path, zoom_level)
            /\ decoded' = {path \in consulted' : TileExists(path)}
            /\ last_write' = {}
            /\ UNCHANGED <<files, written, first_out>>
       ELSE /\ consulted' = SourcePaths(image_path, zoom_level)
            /\ decoded' = {path \in consulted' : TileExists(path)}
            /\ IF save_fails
               THEN /\ pc' = "aborted"
                    /\ fatal' = "save"
                    /\ last_write' = {}
                    /\ UNCHANGED <<files, written, first_out>>
               ELSE /\ files' = Save(image_path)
                    /\ last_write' = {SavedAt(image_path)}
                    /\ written' = written \cup last_write'
                    /\ first_out' =
                         LET saved == SavedAt(image_path)
                         IN  IF saved \in written THEN first_out
                             ELSE (saved :> OutputImage(image_path)) @@ first_out
                    /\ UNCHANGED <<pc, fatal>>
    /\ UNCHANGED <<min_zoom, max_zoom, top, zoom_level, top0, files0, start_level,
                   passes, pass_files, levels_read>>

\* lines 57-59: the pass is over, zoom_level -= 1
EndPass ==
    /\ pc = "tiles"
    /\ image_paths = {}
    /\ passes' = Append(passes, OutputZoomLevel(zoom_level))
    /\ zoom_level' = zoom_level - 1
    /\ pc' = "loop"
    /\ UNCHANGED <<min_zoom, max_zoom, top, files, image_paths, top0, files0,
                   start_level, pass_files, levels_read, written, first_out, last_tile,
                   consulted, decoded, last_write, fatal>>

\* line 42: the loop test fails, main returns
Exit ==
    /\ pc = "loop"
    /\ ~(zoom_level > min_zoom)
    /\ pc' = "done"
    /\ UNCHANGED <<min_zoom, max_zoom, top, files, zoom_level, image_paths, top0,
                   files0, start_level, passes, pass_files, levels_read, written,
                   first_out, last_tile, consulted, decoded, last_write, fatal>>

Next ==
    \/ Locate
    \/ BeginPass
    \/ \E image_path \in image_paths, save_fails \in BOOLEAN :
          ProcessTile(image_path, save_fails)
    \/ EndPass
    \/ Exit

Spec == Init /\ [][Next]_vars

----------------------------------------------------------------------------
(* Helpers of the claims *)

\* the greatest element of a non-empty set of integers
Greatest(S) == CHOOSE z \in S : \A other \in S : other <= z

\* the elements of a sequence
Range(seq) == {seq[k] : k \in 1 .. Len(seq)}

\* the coordinate a tile path stands for
CoordX(path) == ParseU32(path.x)
CoordY(path) == ParseU32(path.y)

\* tile (x, y) of level z, under the name the program gives it
TileAt(z, x, y) == TilePath(z, FormatU32(x), FormatU32(y), "png")

\* the four tiles of level bp.z + 1 that destination tile bp is composed of
QuadOf(bp) ==
    {TileAt(bp.z + 1, 2 * CoordX(bp) + i, 2 * CoordY(bp) + j) : i \in 0 .. 1, j \in 0 .. 1}

\* the png files of level z in the files fs
TileFiles(fs, z) == {path \in DOMAIN fs : path.z = z /\ path.ext = "png"}

----------------------------------------------------------------------------
(* C1 *)

\* C1 (as stated): for max_zoom >= min_zoom, find_last_zoom_level returns the
\* greatest zoom in [min_zoom, max_zoom] whose DIRECTORY folder/<zoom> exists,
\* min_zoom when there is none, and it changes nothing on disk.
C1_GreatestDirectory ==
    (pc # "start" /\ max_zoom >= min_zoom) =>
        /\ start_level =
             IF {z \in min_zoom .. max_zoom : top0[z] = "dir"} = {} THEN min_zoom
             ELSE Greatest({z \in min_zoom .. max_zoom : top0[z] = "dir"})
        /\ (pc = "loop" /\ passes = <<>>) => (files = files0 /\ top = top0)

----------------------------------------------------------------------------
(* C2 *)

\* C2: a call of process_image_path that composes destination tile (bx, by) of
\* level z - 1 checks the existence of exactly the four tiles (2bx + i, 2by + j)
\* of level z, reads exactly those of them that exist and consults no other
\* tile of any level; (bx, by) is (x div 2, y div 2) for the enumerated tile (x, y).
C2_ExactlyTheQuad ==
    \A bp \in last_write :
        /\ consulted = QuadOf(bp)
        /\ decoded = {path \in QuadOf(bp) : path \in DOMAIN files}
        /\ \A t \in last_tile :
              /\ t.z = bp.z + 1
              /\ CoordX(bp) = CoordX(t) \div 2
              /\ CoordY(bp) = CoordY(t) \div 2
              /\ bp = TileAt(t.z - 1, CoordX(t) \div 2, CoordY(t) \div 2)

\* C2 witness: a tile with an odd x has been processed, its destination written,
\* and some tile of the quad was absent
C2_Witness ==
    /\ last_write # {}
    /\ \E t \in last_tile : CoordX(t) % 2 = 1
    /\ Cardinality(consulted) = 4
    /\ Cardinality(decoded) \in 1 .. 3

----------------------------------------------------------------------------
(* C3 *)

\* C3: when a pass from level z to level z - 1 has completed, every tile file
\* (x, y) that level z held when the pass began has its destination tile
\* (x div 2, y div 2) on disk at level z - 1, however few of the four tiles of
\* the quad exist.
C3_EveryTileReduced ==
    (pc \in {"loop", "done"} /\ passes # <<>>) =>
        \A t \in TileFiles(pass_files, passes[Len(passes)] + 1) :
            /\ ~ParseFails(t)
            /\ TileAt(t.z - 1, CoordX(t) \div 2, CoordY(t) \div 2) \in DOMAIN files

\* C3 witness: a pass has completed over a level that held a tile whose quad had
\* no other tile
C3_Witness ==
    /\ pc = "loop"
    /\ passes # <<>>
    /\ \E t \in TileFiles(pass_files, passes[Len(passes)] + 1) :
          /\ ~ParseFails(t)
          /\ Cardinality({q \in QuadOf(TileAt(t.z - 1, CoordX(t) \div 2, CoordY(t) \div 2)) :
                             q \in DOMAIN pass_files}) = 1

----------------------------------------------------------------------------
(* C4 *)

\* C4 (as stated): whenever the reducer writes destination tile (bx, by) of
\* level z - 1, at least one of the four source files (2bx + i, 2by + j) exists
\* at level z: no tile is written for a quad that is wholly absent.
C4_NoGhostTile ==
    \A bp \in last_write : \E path \in QuadOf(bp) : path \in DOMAIN files

----------------------------------------------------------------------------
(* C5 *)

\* the quadrants (i, j) of destination tile bp whose source tile is absent
Missing(bp) ==
    {q \in {<<i, j>> : i \in 0 .. 1, j \in 0 .. 1} :
        TileAt(bp.z + 1, 2 * CoordX(bp) + q[1], 2 * CoordY(bp) + q[2]) \notin DOMAIN files}

\* the image of the source tile of quadrant (i, j) of destination tile bp
SourceImage(bp, i, j) == files[TileAt(bp.z + 1, 2 * CoordX(bp) + i, 2 * CoordY(bp) + j)]

\* the 256 x 256 region at pixel offset (i * 256, j * 256) of the tile written at bp
RegionAt(bp, i, j) == files[bp].px[<<i * TileSize, j * TileSize>>]

----------------------------------------------------------------------------
(* C6 *)

\* C6: within a pass every recomputation of a destination tile stores the image
\* its first write stored: the file is the same after the last write as after
\* the first.
C6_Idempotent ==
    \A bp \in written : bp \in DOMAIN files /\ files[bp] = first_out[bp]

\* C6 witness: two different tiles of the level were processed and both wrote
\* the destination tile written last
C6_Witness ==
    \E bp \in last_write :
        \E t1, t2 \in TileFiles(pass_files, bp.z + 1) \ image_paths :
            /\ t1 # t2
            /\ ~ParseFails(t1) /\ ~ParseFails(t2)
            /\ TileAt(bp.z, CoordX(t1) \div 2, CoordY(t1) \div 2) = bp
            /\ TileAt(bp.z, CoordX(t2) \div 2, CoordY(t2) \div 2) = bp

----------------------------------------------------------------------------
(* C7 *)

\* the levels s - 1, s - 2, ..., m in that order
Descending(s, m) == [k \in 1 .. (s - m) |-> s - k]

\* C7 (as stated): a run without fatal error makes exactly one pass for each
\* destination level s - 1, ..., min_zoom in that order, s being the level the
\* locator returned, and ends with zoom_level = min_zoom; when s = min_zoom, in
\* particular when max_zoom = min_zoom or when no level directory exists, the
\* loop body never runs and nothing is written.
C7_AllLevelsInOrder ==
    pc = "done" =>
        /\ zoom_level = min_zoom
        /\ passes = Descending(start_level, min_zoom)
        /\ start_level = min_zoom => (passes = <<>> /\ files = files0 /\ top = top0)
        /\ max_zoom = min_zoom => start_level = min_zoom
        /\ (\A z \in Levels : top0[z] # "dir") => start_level = min_zoom

\* what holds of the loop whatever the locator returned: one pass per level below
\* the start level, in order, and no write when the start level is min_zoom
PassesInOrder ==
    pc = "done" =>
        /\ zoom_level = min_zoom
        /\ passes = Descending(start_level, min_zoom)
        /\ start_level = min_zoom => (passes = <<>> /\ files = files0 /\ top = top0)
        /\ max_zoom = min_zoom => start_level = min_zoom

----------------------------------------------------------------------------
(* C8 *)

\* the step is a call of process_image_path on tile t
CallOn(t) == pc = "tiles" /\ t \in image_paths /\ image_paths' = image_paths \ {t}

\* tile t is fatal: a name that is no number, or a source that exists and does
\* not decode
FatalTile(t) ==
    \/ ParseFails(t)
    \/ \E path \in QuadOf(TileAt(t.z - 1, CoordX(t) \div 2, CoordY(t) \div 2)) :
          path \in DOMAIN files /\ ~files[path].ok

----------------------------------------------------------------------------
(* C9 *)

\* C9: a level is written only before it is enumerated and read: the tile a call
\* writes lies at a level that has not been enumerated, the tiles a call consults
\* lie at the level enumerated last, and never at the level being written.
C9_LevelBarrier ==
    /\ \A bp \in last_write : bp.z \notin levels_read
    /\ \A path \in consulted \cup decoded :
          /\ path.z \in levels_read
          /\ \A z \in levels_read : path.z <= z
          /\ \A bp \in last_write : path.z # bp.z
    /\ \A bp \in written : bp.z \notin levels_read

\* C9 witness: a second pass reads, as sources, tiles the first pass wrote
C9_Witness ==
    /\ passes # <<>>
    /\ last_write # {}
    /\ \E path \in decoded : path \notin DOMAIN files0

----------------------------------------------------------------------------
(* C10 *)

\* the files that a step creates or changes
Touched == {path \in DOMAIN files' : path \notin DOMAIN files \/ files'[path] # files[path]}

\* C10: a pass from level z to level z - 1 creates or writes only tile files of
\* level z - 1 and removes none; every other file stays as it is, and a level
\* whose pass has finished is not written again.
C10_OnlyOutputLevelWritten ==
    [][ /\ DOMAIN files \subseteq DOMAIN files'
        /\ \A path \in Touched \cup (IF pc = "tiles" THEN last_write' ELSE {}) :
              /\ pc = "tiles"
              /\ path.z = zoom_level - 1
              /\ path.ext = "png"
              /\ path.z \notin Range(passes)
        /\ \A z \in Levels :
              top'[z] # top[z] => (z = zoom_level - 1 /\ top[z] = "none" /\ top'[z] = "dir") ]_vars

\* C10 witness: after a first pass has finished, a second pass has written a
\* tile, and the files of the first pass's level are as the first pass left them
C10_Witness ==
    /\ Len(passes) = 1
    /\ pc = "tiles"
    /\ last_write # {}
    /\ \A path \in DOMAIN pass_files : path \in DOMAIN files /\ files[path] = pass_files[path]

====
